---- MODULE Spec2Model ----
(***************************************************************************)
(* AircraftDataBridge (MqttTrafficDataManagerPython.py): the proxy pool,   *)
(* the retry loop of fetch_and_publish_data and the threads that run it.   *)
(*                                                                         *)
(* Three threads touch the bridge's attributes:                            *)
(*   "main"  runs __init__, connect() and disconnect();                    *)
(*   "cb"    is the transport's delivery loop (started by loop_start): it  *)
(*           runs on_connect, on_message and on_disconnect one at a time;  *)
(*   "tk"    is _periodic_publisher_loop, started by on_connect when       *)
(*           enable_periodic_publishing is set.                            *)
(* The code takes no lock, so a step of a thread is one access to a shared *)
(* attribute (with the thread-local work around it); a blocking network    *)
(* call ends in the step that picks its outcome.                           *)
(***************************************************************************)
EXTENDS Integers, Sequences, FiniteSets, TLC

\* ------------------------------------------------------------------ bounds
MaxProxies == 2          \* candidates loaded from data.csv
MaxThreadedProxies == 1  \* the same, in the runs with the publisher thread

MaxInputRadiusKm == 1001 \* largest radius_km tried (the smallest is -2)
MaxRows == 2             \* records of a response body
MaxManagerRetries == 3   \* largest max_retries given to ProxyTrafficDataManager

\* --------------------------------------------------------------- constants
max_retries == 3
FailureLimit == 3
DefaultRadiusKm == 250
MinRadiusM == 10000
MaxRadiusM == 400000

None == 0
Proxies == 1 .. MaxProxies
Keys == 0 .. MaxProxies                 \* dictionary keys: a proxy, or None
Threads == {"main", "cb", "tk"}
Workers == {"cb", "tk"}

\* shapes of the cached request parameters (last_request_params):
\*   "unset"       the attribute was never assigned (getattr gives None)
\*   "no_center"   an object without center_lat / center_lon
\*   "center"      an object with both, radius_km absent or a number
\*   "bad_radius"  an object with both, radius_km not convertible by float()
\*   "number"      not an object: a JSON number other than 0
ParamObjects == {"no_center", "center", "bad_radius"}
ParamVals == {"unset", "number"} \cup ParamObjects
request_topic == "aircraft/request"
Topics == {request_topic, "other/topic"}

\* ---- inbound messages.  A message is its topic and its payload:
\*   kind "object"  json.loads gives a dict; command is its "command" member
\*                  ("absent" when it has none), params its shape
\*   kind "number"  json.loads gives a number (not a dict)
\*   kind "text"    json.loads raises JSONDecodeError; text is the payload
\*   kind "bytes"   payload.decode() raises UnicodeDecodeError
\* text is a sequence of characters.
NoText == <<>>
Update == <<"u", "p", "d", "a", "t", "e">>
PaddedUpdate == <<" ", " ", "U", "p", "d", "a", "t", "e", " ", " ">>
Ping == <<"p", "i", "n", "g">>

ObjectMessage(topic, command, params) ==
    [topic |-> topic, kind |-> "object", command |-> command, params |-> params,
     text |-> NoText]
TextMessage(topic, text) ==
    [topic |-> topic, kind |-> "text", command |-> "absent", params |-> "unset",
     text |-> text]
NumberMessage(topic) ==
    [topic |-> topic, kind |-> "number", command |-> "absent", params |-> "number",
     text |-> NoText]
BytesMessage(topic) ==
    [topic |-> topic, kind |-> "bytes", command |-> "absent", params |-> "unset",
     text |-> NoText]
\* no message is being handled
NoMsg ==
    [topic |-> "none", kind |-> "none", command |-> "absent", params |-> "unset",
     text |-> NoText]

Messages ==
    { ObjectMessage(request_topic, "update", p) : p \in ParamObjects }
    \cup { ObjectMessage(request_topic, "status", p) : p \in {"no_center", "center"} }
    \cup { TextMessage(request_topic, x) : x \in {Update, PaddedUpdate, Ping} }
    \cup { NumberMessage(request_topic), BytesMessage(request_topic) }
    \cup { ObjectMessage("other/topic", "update", "center"),
           TextMessage("other/topic", Update) }

VARIABLES
    \* ---- attributes of the bridge
    proxy_list,                  \* sequence of candidates
    proxy_failures,              \* key -> count; 0 stands for "key absent"
    current_proxy,               \* a proxy or None
    use_proxy,
    proxies,                     \* target of the requests proxies mapping; None = {}
    is_connected,
    stop_event,
    enable_periodic_publishing,
    last_request_params,
    \* ---- per thread: position and locals
    pc,
    retry_count,
    test_proxies,                \* indices of the shuffled copy not yet visited
    proxy,                       \* candidate under test / new_proxy of switch_proxy
    loaded,                      \* value read by a pending "+= 1"
    failkey,                     \* key of a pending proxy_failures[...] update
    in_connect,                  \* cb: the running cycle was started by on_connect
    route,                       \* proxies argument of the request in flight, or of the
                                 \* request whose exception is being handled; None = direct
    msg,                         \* cb: the message on_message is handling
    \* ---- history (not read by the program)
    attempts,                    \* passes of the Tier 1 / Tier 2 chain, running invocation
    published,                   \* calls of mqtt_client.publish, running invocation
    \* ---- the data path of one attempt, taken alone
    radius_km,                   \* request_params.get('radius_km', 250)
    radius_m,                    \* the dist parameter of the Tier 1 URL
    data,                        \* response.json() of a 200 response
    payload,                     \* the object given to json.dumps for publish
    \* ---- the session with the broker, as the transport sees it
    subscribed,                  \* client.subscribe(request_topic) was called on this connection
    connack,                     \* result code of the last connect acknowledgement: <<rc>>, or <<>>
    publisher_threads,            \* threads started at line 186 that are alive
    \* ---- attributes of the ProxyTrafficDataManager of TestProxy.py
    manager_proxy_list,          \* its proxy_list: the entries of proxy.csv, in file order
    manager_max_retries,         \* its max_retries
    selected_proxy,              \* an entry, or NoSelection for None
    proxy_host,
    proxy_port,
    verified_proxies,
    failed_proxies,
    \* ---- the caller's position in fetch_data, and its locals
    mpc,
    retries,
    proxy_found,
    tries,                       \* passes of the for loop of line 176, this round
    \* ---- history of the manager (not read by the program)
    called,                      \* the method that returned last
    returned,                    \* what it returned
    probe,                       \* the last test request of verify_proxy
    passed,                      \* address that verified in the running round
    sent,                        \* route of the last API request of the running round
    api_requests                 \* API requests of the running fetch_data

bridge == <<proxy_list, proxy_failures, current_proxy, use_proxy, proxies,
            is_connected, stop_event, enable_periodic_publishing, last_request_params>>
locals == <<pc, retry_count, test_proxies, proxy, loaded, failkey, in_connect, route, msg>>
history == <<attempts, published>>
codec == <<radius_km, radius_m, data, payload>>
session == <<subscribed, connack, publisher_threads>>
attributes == <<manager_proxy_list, manager_max_retries, selected_proxy, proxy_host, proxy_port,
                verified_proxies, failed_proxies>>
manager == <<attributes, mpc, retries, proxy_found, tries,
             called, returned, probe, passed, sent, api_requests>>
vars == <<bridge, locals, history, codec, session, manager>>

\* ------------------------------------------------------------------ helpers
Goto(t, l) == pc' = [pc EXCEPT ![t] = l]

Max(a, b) == IF a >= b THEN a ELSE b
Min(a, b) == IF a <= b THEN a ELSE b

\* ---------------------------------------------------------------- on_message
IsSpace(c) == c = " "

\* str.lower, on the letters of the payloads
LowerChar(c) ==
    CASE c = "U" -> "u" [] c = "P" -> "p" [] c = "D" -> "d"
      [] c = "A" -> "a" [] c = "T" -> "t" [] c = "E" -> "e"
      [] OTHER -> c

lower(s) == [i \in 1 .. Len(s) |-> LowerChar(s[i])]

RECURSIVE lstrip(_)
lstrip(s) == IF s # <<>> /\ IsSpace(Head(s)) THEN lstrip(Tail(s)) ELSE s

RECURSIVE rstrip(_)
rstrip(s) ==
    IF s # <<>> /\ IsSpace(s[Len(s)]) THEN rstrip(SubSeq(s, 1, Len(s) - 1)) ELSE s

strip(s) == rstrip(lstrip(s))

\* Decoded without the topic test of line 206
Decoded_AnyTopic(m) == m.kind \in {"object", "number"}

\* lines 201-209: payload.decode() and json.loads(payload) both return
Decoded(m) == m.topic = request_topic /\ m.kind \in {"object", "number"}

\* line 211: the value of last_request_params after on_message(m)
CachedAfter(m, cached) == IF Decoded(m) THEN m.params ELSE cached

\* StartsCycle comparing the raw text, without strip().lower()
StartsCycle_NoStrip(m) ==
    /\ m.topic = request_topic
    /\ \/ m.kind = "object" /\ m.command = "update"
       \/ m.kind = "text" /\ m.text = Update

\* lines 212-221: on_message(m) calls fetch_and_publish_data; request_data.get
\* of a number raises AttributeError, caught at line 224
StartsCycle(m) ==
    /\ m.topic = request_topic
    /\ \/ m.kind = "object" /\ m.command = "update"
       \/ m.kind = "text" /\ lower(strip(m.text)) = Update

\* ------------------------------------------------ the data path of an attempt
\* line 238 with lines 239-242: what an attempt does about Tier 1, given the
\* cached parameters.  "'center_lat' in 5" raises TypeError and float() of a
\* value it cannot convert raises; both are caught at line 306.
Tier1Plan(params) ==
    CASE params \in {"unset", "no_center"} -> "skip"
      [] params = "center" -> "request"
      [] params \in {"bad_radius", "number"} -> "raise"

\* the "radius_km" member of the cached parameters:
\*   "absent"  no such member       "int"     a JSON integer n
\*   "numstr"  a JSON string holding the digits of n
\*   "null"    JSON null            "str"     another JSON string
RadiusMember(kind, n) == [kind |-> kind, n |-> n]
NoRadius == RadiusMember("none", 0)
RadiusInputs ==
    { RadiusMember("int", n) : n \in -2 .. MaxInputRadiusKm }
    \cup { RadiusMember("numstr", 300), RadiusMember("absent", 0),
           RadiusMember("null", 0), RadiusMember("str", 0) }

NotComputed == [status |-> "none", dist |-> 0]

\* line 241: request_params.get('radius_km', 250)
GetRadius(r) == IF r.kind = "absent" THEN RadiusMember("int", DefaultRadiusKm) ELSE r

\* radius_m_of without the lower limit of line 242
radius_m_of_NoFloor(r) ==
    LET g == GetRadius(r)
    IN  IF g.kind \in {"int", "numstr"}
        THEN [status |-> "ok", dist |-> Min(MaxRadiusM, g.n * 1000)]
        ELSE [status |-> "raised", dist |-> 0]

\* lines 241-242: float(...) accepts a number and a numeric string and raises
\* on the rest; int(max(10000, min(400000, radius_km * 1000)))
radius_m_of(r) ==
    LET g == GetRadius(r)
    IN  IF g.kind \in {"int", "numstr"}
        THEN [status |-> "ok", dist |-> Max(MinRadiusM, Min(MaxRadiusM, g.n * 1000))]
        ELSE [status |-> "raised", dist |-> 0]

Indices == 1 .. Len(proxy_list)

\* the writes of one failure-record statement: proxy_failures[k] = v
RecordWrite(k, v) ==
    proxy_failures' = [proxy_failures EXCEPT ![k] = v]

\* ---- JSON values of a response body, written as their JSON text; "absent"
\* marks a member the object does not have
Falsy == {"null", "0", "''", "false"}
truthy(v) == v \notin Falsy
\* a or b
or(a, b) == IF truthy(a) THEN a ELSE b
bool(v) == IF truthy(v) THEN "true" ELSE "false"
\* ac.get(f)
get(ac, f) == IF ac[f] = "absent" THEN "null" ELSE ac[f]

StringFields == {"icao", "hex", "call"}
NumberFields == {"lon", "lat", "alt_baro", "alt_baro_ft", "gs", "track", "roc"}
AcFields == StringFields \cup NumberFields \cup {"gnd"}

\* a member that is present, with a value of the provider's type
Present(f) == IF f \in StringFields THEN "'x'" ELSE IF f = "gnd" THEN "true" ELSE "1"

\* aircraft objects: every choice of members present, and some with members
\* that are present and falsy
AcObjects ==
    { [f \in AcFields |-> IF f \in S THEN Present(f) ELSE "absent"] : S \in SUBSET AcFields }
    \cup { [f \in AcFields |-> IF f \in StringFields THEN "''"
                                ELSE IF f = "gnd" THEN "false" ELSE "0"],
           [f \in AcFields |-> IF f = "alt_baro" THEN "0"
                                ELSE IF f = "alt_baro_ft" THEN "''" ELSE "null"] }

\* state_of with "ac.get(...) or 0" written as ac.get(...), and four reserved
\* slots
state_of_NoDefaults(ac) ==
    <<or(or(get(ac, "icao"), get(ac, "hex")), "''"), or(get(ac, "call"), "''"), "''",
      "null", "null", get(ac, "lon"), get(ac, "lat"),
      or(get(ac, "alt_baro"), get(ac, "alt_baro_ft")), bool(get(ac, "gnd")),
      get(ac, "gs"), get(ac, "track"), get(ac, "roc")>> \o [i \in 1 .. 4 |-> "null"]

\* lines 267-291: one aircraft object to one positional record
state_of(ac) ==
    LET icao24 == or(or(get(ac, "icao"), get(ac, "hex")), "''")
        callsign == or(get(ac, "call"), "''")
        origin_country == "''"
        lon == or(get(ac, "lon"), "0")
        lat == or(get(ac, "lat"), "0")
        alt == or(get(ac, "alt_baro"), get(ac, "alt_baro_ft"))
        alt_baro == IF alt = "null" THEN "0" ELSE alt
        vel == or(get(ac, "gs"), "0")
        track == or(get(ac, "track"), "0")
        vr == or(get(ac, "roc"), "0")
        on_ground == bool(get(ac, "gnd"))
    IN  <<icao24, callsign, origin_country, "null", "null", lon, lat, alt_baro,
          on_ground, vel, track, vr>> \o [i \in 1 .. 5 |-> "null"]

\* a decoded body: type "object" (a dict with the members in keys) or "array";
\* ac_list / states_list say that the member is a list
Body(tier, type, keys, ac_list, ac, states_list, states) ==
    [tier |-> tier, type |-> type, keys |-> keys, ac_list |-> ac_list, ac |-> ac,
     states_list |-> states_list, states |-> states]
NoData == Body("none", "none", {}, FALSE, <<>>, FALSE, <<>>)
NoPayload == NoData
\* the attempt ended in the handler of line 306, nothing was published
RaisedPayload == Body("none", "raised", {}, FALSE, <<>>, FALSE, <<>>)

\* a positional record as the fallback provider sends it
Row(n) == [i \in 1 .. n |-> IF i \in {1, 2, 3} THEN "'x'" ELSE "1"]

SomeAcObjects ==
    { a \in AcObjects : \A f \in AcFields : a[f] # "absent" }
    \cup { a \in AcObjects : \A f \in AcFields : a[f] = "absent" }

AcLists ==
    {<<>>} \cup { <<a>> : a \in AcObjects }
    \cup { [i \in 1 .. MaxRows |-> IF i = 1 THEN a ELSE b] : a, b \in SomeAcObjects }

DataInputs ==
    { Body("tier1", "object", {"ac", "msg"}, TRUE, l, FALSE, <<>>) : l \in AcLists }
    \cup { Body("tier1", "object", {"msg"}, FALSE, <<>>, FALSE, <<>>),
           Body("tier1", "object", {"ac"}, FALSE, <<>>, FALSE, <<>>),
           Body("tier1", "array", {}, FALSE, <<>>, FALSE, <<>>),
           Body("tier2", "object", {"time", "states"}, FALSE, <<>>, TRUE, <<>>),
           Body("tier2", "object", {"time", "states"}, FALSE, <<>>, TRUE, <<Row(17)>>),
           Body("tier2", "object", {"time", "states"}, FALSE, <<>>, FALSE, <<>>),
           Body("tier2", "array", {}, FALSE, <<>>, FALSE, <<>>) }

\* lines 262-297: data = response.json(); the normalization when data has an
\* 'ac' list; the log line 294 (data.get of a list raises AttributeError, len
\* of a 'states' member that is no list raises TypeError); the published object
publish_of(d) ==
    IF d.type = "object" /\ "ac" \in d.keys /\ d.ac_list
    THEN Body(d.tier, "object", {"time", "states"}, FALSE, <<>>, TRUE,
              [i \in 1 .. Len(d.ac) |-> state_of(d.ac[i])])
    ELSE IF d.type # "object" \/ ("states" \in d.keys /\ ~d.states_list)
         THEN RaisedPayload
         ELSE d

\* ------------------------------------------------------------------ Init
\* data.csv as csv.reader gives it: the first cell of each row, written as the
\* address it holds, or 0 when the cell does not start with "socks4://" (a
\* header, another scheme).  Addresses are named in the order of their first
\* appearance.
CsvFiles ==
    { f \in UNION { [1 .. n -> 0 .. MaxProxies] : n \in 0 .. MaxProxies } :
        \A i \in 1 .. Len(f) :
          f[i] > 1 => \E j \in 1 .. (i - 1) : f[j] = f[i] - 1 }

\* load_proxies_from_csv, lines 88-91: every row whose first cell starts with
\* "socks4://" is appended, in the file's order
load_proxies_from_csv(rows) ==
    LET RECURSIVE load(_)
        load(n) ==
          IF n = 0 THEN <<>>
          ELSE IF rows[n] \in Proxies
               THEN Append(load(n - 1), rows[n])
               ELSE load(n - 1)
    IN load(Len(rows))

\* The state at line 66: attributes set, data.csv loaded.
ProxyLists == { load_proxies_from_csv(f) : f \in CsvFiles }

\* ------------------------------------------- TestProxy.py: entries of proxy.csv
\* The first cell of a row, stripped, as the sequence of the pieces of its
\* text: "http://" stands for a scheme prefix (it holds "://"), ":" and ","
\* are the separators, every other piece is a run of other characters.  An
\* empty sequence is an empty (or blank) cell.
HostPort == <<"h1", ":", "8080">>
UrlCountry == <<"http://", "h2", ":", "3128", ",", "US">>
HostOnly == <<"h3">>
PortZero == <<"h4", ":", "0">>
UrlNoPort == <<"http://", "h5">>
BadPort == <<"h6", ":", "x">>
UrlBadPort == <<"http://", "h7", ":", "x">>

NoSelection == <<>>      \* selected_proxy is None
NoHost == "None"         \* proxy_host is None
NoPort == -1             \* proxy_port is None
ValueError == -2         \* int() or urlparse(...).port raises
DefaultPort == 80
TryLimit == 10

TruthyHost(h) == h \notin {NoHost, ""}
TruthyPort(p) == p \notin {NoPort, 0}

\* int() of a run of characters
int(s) ==
    CASE s = "0" -> 0
      [] s = "80" -> 80
      [] s = "3128" -> 3128
      [] s = "8080" -> 8080
      [] OTHER -> ValueError

IndexOf(u, piece) ==
    IF \E i \in 1 .. Len(u) : u[i] = piece
    THEN CHOOSE i \in 1 .. Len(u) : u[i] = piece /\ \A j \in 1 .. (i - 1) : u[j] # piece
    ELSE 0

\* line 71-72: split(',')[0]
FirstCell(e) ==
    IF IndexOf(e, ",") = 0 THEN e ELSE SubSeq(e, 1, IndexOf(e, ",") - 1)

\* split(':'): the texts between the colons, "" where there is none
RECURSIVE split(_)
split(u) ==
    LET i == IndexOf(u, ":")
        text(v) == IF v = <<>> THEN "" ELSE v[1]
    IN IF i = 0 THEN <<text(u)>>
       ELSE <<text(SubSeq(u, 1, i - 1))>> \o split(SubSeq(u, i + 1, Len(u)))

\* urlparse(proxy_url) of a text with a scheme prefix: hostname (None when
\* empty) and port (None when absent, ValueError when not a number)
urlparse(u) ==
    LET netloc == split(Tail(u))
    IN [hostname |-> IF netloc[1] = "" THEN NoHost ELSE netloc[1],
        port |-> IF Len(netloc) < 2 THEN NoPort ELSE int(netloc[2])]

\* parse_selected_proxy, lines 64-98, of entry e with proxy_host = host and
\* proxy_port = port: the two attributes afterwards, and the return value
parse_selected_proxy(e, host, port) ==
    LET proxy_url == FirstCell(e)
    IN IF e = NoSelection
       THEN [host |-> host, port |-> port, ok |-> FALSE]
       ELSE IF IndexOf(proxy_url, "http://") # 0
       THEN LET parsed_url == urlparse(proxy_url)
            IN IF parsed_url.port = ValueError
               \* line 77 has run, line 78 raises into line 96
               THEN [host |-> parsed_url.hostname, port |-> port, ok |-> FALSE]
               ELSE [host |-> parsed_url.hostname,
                     port |-> IF TruthyPort(parsed_url.port) THEN parsed_url.port
                              ELSE DefaultPort,
                     ok |-> TRUE]
       ELSE LET address_parts == split(proxy_url)
            IN IF Len(address_parts) = 2
               THEN [host |-> address_parts[1],
                     port |-> IF int(address_parts[2]) = ValueError THEN DefaultPort
                              ELSE int(address_parts[2]),
                     ok |-> TRUE]
               ELSE [host |-> host, port |-> port, ok |-> FALSE]

\* proxy.csv as csv.reader gives it: the first cell of each row
ProxyFiles ==
    { <<>>,
      <<HostPort>>,
      <<HostOnly>>,
      <<PortZero>>,
      <<HostPort, HostOnly>>,
      <<UrlCountry, <<>>, BadPort>>,
      <<UrlNoPort, UrlBadPort>>,
      [i \in 1 .. (TryLimit + 1) |-> HostPort] }

\* load_proxies, lines 41-43: every non-empty first cell, in the file's order
load_proxies(rows) == SelectSeq(rows, LAMBDA cell : cell # <<>>)

InList(p, list) == \E i \in 1 .. Len(list) : list[i] = p

\* "if p not in list: list.append(p)"
AppendNew(list, p) == IF InList(p, list) THEN list ELSE Append(list, p)

InitAttributes ==
    /\ proxy_list \in ProxyLists
    /\ proxy_failures = [k \in Keys |-> 0]
    /\ current_proxy = None
    /\ use_proxy = TRUE
    /\ proxies = None
    /\ is_connected = FALSE
    /\ stop_event = FALSE
    /\ last_request_params = "unset"
    /\ pc = [t \in Threads |-> IF t = "main" THEN "init" ELSE "off"]
    /\ retry_count = [t \in Threads |-> 0]
    /\ test_proxies = [t \in Threads |-> {}]
    /\ proxy = [t \in Threads |-> None]
    /\ loaded = [t \in Threads |-> 0]
    /\ failkey = [t \in Threads |-> None]
    /\ in_connect = FALSE
    /\ route = [t \in Threads |-> None]
    /\ msg = NoMsg
    /\ attempts = [t \in Threads |-> 0]
    /\ published = [t \in Threads |-> 0]
    /\ subscribed = FALSE
    /\ connack = <<>>
    /\ publisher_threads = 0

\* no attempt's data path is followed
IdleCodec ==
    /\ radius_km = NoRadius
    /\ radius_m = NotComputed
    /\ data = NoData
    /\ payload = NoPayload

NoProbe == [entry |-> NoSelection, host |-> NoHost, port |-> NoPort]
NoAddress == <<NoHost, NoPort>>      \* no address yet
Direct == <<"direct", NoPort>>       \* proxies=None

\* lines 16-22, and fetch_data not entered
NewManager ==
    /\ selected_proxy = NoSelection
    /\ proxy_host = NoHost
    /\ proxy_port = NoPort
    /\ verified_proxies = <<>>
    /\ failed_proxies = <<>>
    /\ retries = 0
    /\ proxy_found = FALSE
    /\ tries = 0
    /\ called = ""
    /\ returned = ""
    /\ probe = NoProbe
    /\ passed = NoAddress
    /\ sent = NoAddress
    /\ api_requests = 0

\* the bridge's script constructs no ProxyTrafficDataManager
IdleManager ==
    /\ NewManager
    /\ manager_proxy_list = <<>>
    /\ manager_max_retries = max_retries
    /\ mpc = "off"

\* line 47: on-demand by default
Init ==
    /\ InitAttributes
    /\ IdleCodec
    /\ IdleManager
    /\ enable_periodic_publishing = FALSE

\* one attempt's data path: a radius_km member, or the body of a 200 response
InitData ==
    /\ InitAttributes
    /\ IdleManager
    /\ proxy_list = <<>>
    /\ enable_periodic_publishing = FALSE
    /\ radius_m = NotComputed
    /\ payload = NoPayload
    /\ \/ radius_km \in RadiusInputs /\ data = NoData
       \/ radius_km = NoRadius /\ data \in DataInputs

\* the bridge with periodic publishing switched on
InitPeriodic ==
    /\ InitAttributes
    /\ IdleCodec
    /\ enable_periodic_publishing = TRUE
    /\ Len(proxy_list) <= MaxThreadedProxies
    /\ IdleManager

\* TestProxy.py, line 203: the manager constructed, proxy.csv loaded; the
\* bridge is not part of that script
InitManager ==
    /\ InitAttributes
    /\ IdleCodec
    /\ proxy_list = <<>>
    /\ enable_periodic_publishing = FALSE
    /\ NewManager
    /\ manager_proxy_list \in { load_proxies(f) : f \in ProxyFiles }
    /\ manager_max_retries \in 0 .. MaxManagerRetries
    /\ mpc = "idle"

\* ---------------------------------------------------------- find_working_proxy
\* lines 121-128: copy and shuffle the list (any visiting order is possible)
StartFind(t) ==
    /\ test_proxies' = [test_proxies EXCEPT ![t] = Indices]
    /\ proxy' = [proxy EXCEPT ![t] = None]
    /\ Goto(t, "find")

\* what the caller does with find_working_proxy's result r
\*   __init__ (lines 69-78), alone at that time
\*   switch_proxy (line 326): new_proxy = r
FindReturn(t, r) ==
    /\ test_proxies' = [test_proxies EXCEPT ![t] = {}]
    /\ IF t = "main"
       THEN /\ current_proxy' = r
            /\ proxies' = r
            /\ use_proxy' = (r # None)
            /\ proxy' = [proxy EXCEPT ![t] = None]
            /\ Goto(t, "constructed")
       ELSE /\ proxy' = [proxy EXCEPT ![t] = r]
            /\ Goto(t, IF r # None THEN "sw_cur" ELSE "sw_off")
            /\ UNCHANGED <<current_proxy, proxies, use_proxy>>

\* FindNext without the test of line 100: blacklisted candidates are probed
FindNext_NoBlacklist(t) ==
    /\ pc[t] = "find"
    /\ IF test_proxies[t] = {}
       THEN FindReturn(t, None)
       ELSE \E i \in test_proxies[t] :
              /\ test_proxies' = [test_proxies EXCEPT ![t] = @ \ {i}]
              /\ proxy' = [proxy EXCEPT ![t] = proxy_list[i]]
              /\ Goto(t, "probe")
              /\ UNCHANGED <<current_proxy, proxies, use_proxy>>
    /\ UNCHANGED <<proxy_list, proxy_failures, is_connected, stop_event,
                   enable_periodic_publishing, last_request_params, retry_count, loaded,
                   failkey, in_connect, history>>
    /\ UNCHANGED <<route, msg, codec, manager, session>>

\* lines 130-136 with test_proxy's line 100: next candidate of the shuffled copy
FindNext(t) ==
    /\ pc[t] = "find"
    /\ IF test_proxies[t] = {}
       THEN FindReturn(t, None)
       ELSE \E i \in test_proxies[t] :
              /\ test_proxies' = [test_proxies EXCEPT ![t] = @ \ {i}]
              /\ IF proxy_failures[proxy_list[i]] >= FailureLimit
                 THEN UNCHANGED <<pc, proxy>>
                 ELSE /\ proxy' = [proxy EXCEPT ![t] = proxy_list[i]]
                      /\ Goto(t, "probe")
              /\ UNCHANGED <<current_proxy, proxies, use_proxy>>
    /\ UNCHANGED <<proxy_list, proxy_failures, is_connected, stop_event,
                   enable_periodic_publishing, last_request_params, retry_count, loaded,
                   failkey, in_connect, history>>
    /\ UNCHANGED <<route, msg, codec, manager, session>>

\* lines 103-114: the probe returns; on an exception the handler reads the counter
ProbeOutcome(t, outcome) ==
    /\ pc[t] = "probe"
    /\ CASE outcome = "ok" ->
              /\ FindReturn(t, proxy[t])
              /\ UNCHANGED <<loaded, failkey>>
         [] outcome = "status" ->
              /\ Goto(t, "find")
              /\ UNCHANGED <<current_proxy, proxies, use_proxy, proxy, loaded, failkey, test_proxies>>
         [] outcome = "exception" ->
              /\ loaded' = [loaded EXCEPT ![t] = proxy_failures[proxy[t]]]
              /\ failkey' = [failkey EXCEPT ![t] = proxy[t]]
              /\ Goto(t, "probe_store")
              /\ UNCHANGED <<current_proxy, proxies, use_proxy, proxy, test_proxies>>
    /\ UNCHANGED <<proxy_list, proxy_failures, is_connected, stop_event,
                   enable_periodic_publishing, last_request_params, retry_count, in_connect,
                   history>>
    /\ UNCHANGED <<route, msg, codec, manager, session>>

Probe(t) == \E outcome \in {"ok", "status", "exception"} : ProbeOutcome(t, outcome)

\* lines 115 / 117: proxy_failures[proxy] = 1, or the store of "+= 1"
ProbeStore(t) ==
    /\ pc[t] = "probe_store"
    /\ RecordWrite(failkey[t], loaded[t] + 1)
    /\ loaded' = [loaded EXCEPT ![t] = 0]
    /\ failkey' = [failkey EXCEPT ![t] = None]
    /\ Goto(t, "find")
    /\ UNCHANGED <<proxy_list, current_proxy, use_proxy, proxies, is_connected, stop_event,
                   enable_periodic_publishing, last_request_params, retry_count,
                   test_proxies, proxy, in_connect, attempts, published>>
    /\ UNCHANGED <<route, msg, codec, manager, session>>

\* ------------------------------------------------------------------ __init__
\* line 68
Construct ==
    /\ pc["main"] = "init"
    /\ IF use_proxy /\ Len(proxy_list) > 0
       THEN StartFind("main")
       ELSE /\ Goto("main", "constructed")
            /\ UNCHANGED <<test_proxies, proxy>>
    /\ UNCHANGED <<bridge, retry_count, loaded, failkey, in_connect, history>>
    /\ UNCHANGED <<route, msg, codec, manager, session>>

\* ------------------------------------------------------- fetch_and_publish_data
\* lines 229-230
StartFetch(t) ==
    /\ retry_count' = [retry_count EXCEPT ![t] = 0]
    /\ attempts' = [attempts EXCEPT ![t] = 0]
    /\ published' = [published EXCEPT ![t] = 0]
    /\ Goto(t, "loop")

\* where fetch_and_publish_data returns to: on_connect line 183, on_message,
\* or the publisher loop line 364
ReturnLabel(t) ==
    IF t = "tk" THEN "tk_wait" ELSE IF in_connect THEN "start_pub" ELSE "idle"

\* lines 232-244: the loop test, the cached parameters, the Tier 1 URL; the
\* request of line 246 is given no proxies argument
Loop(t) ==
    /\ pc[t] = "loop"
    /\ IF retry_count[t] >= max_retries
       THEN /\ Goto(t, "ret")
            /\ UNCHANGED attempts
       ELSE /\ attempts' = [attempts EXCEPT ![t] = @ + 1]
            /\ Goto(t, CASE Tier1Plan(last_request_params) = "raise" -> "except"
                         [] Tier1Plan(last_request_params) = "request" -> "tier1"
                         [] OTHER -> "tier2")
    /\ route' = [route EXCEPT ![t] = None]
    /\ UNCHANGED <<bridge, retry_count, test_proxies, proxy, loaded, failkey, in_connect,
                   published, msg, codec, manager, session>>

\* Tier1Outcome with a failed Tier 1 request handled as a failed attempt
Tier1Outcome_Counted(t, outcome) ==
    /\ pc[t] = "tier1"
    /\ IF outcome = "ok"
       THEN /\ Goto(t, "handle200")
            /\ UNCHANGED <<retry_count, test_proxies, proxy>>
       ELSE /\ retry_count' = [retry_count EXCEPT ![t] = @ + 1]
            /\ StartFind(t)
    /\ UNCHANGED <<bridge, loaded, failkey, in_connect, route, msg, history, codec, manager, session>>

\* lines 246-250: the response of the Tier 1 request; a status other than 200
\* and an exception both leave response = None
Tier1Outcome(t, outcome) ==
    /\ pc[t] = "tier1"
    /\ Goto(t, IF outcome = "ok" THEN "handle200" ELSE "tier2")
    /\ UNCHANGED <<bridge, retry_count, test_proxies, proxy, loaded, failkey, in_connect,
                   route, msg, history, codec, manager, session>>

Tier1(t) == \E outcome \in {"ok", "status", "exception"} : Tier1Outcome(t, outcome)

\* FailAndSwitch with the "retry_count += 1" of line 302 forgotten
FailAndSwitch_NoCount(t) ==
    /\ UNCHANGED retry_count
    /\ StartFind(t)

\* line 302 with the call of switch_proxy (line 304 -> 326) that follows at once
FailAndSwitch(t) ==
    /\ retry_count' = [retry_count EXCEPT ![t] = @ + 1]
    /\ StartFind(t)

\* what follows the response of the Tier 2 request: line 261, 301-304 or 306
AfterResponse(t, outcome) ==
    CASE outcome = "ok" ->
           /\ Goto(t, "handle200")
           /\ UNCHANGED <<retry_count, test_proxies, proxy>>
      [] outcome = "status" -> FailAndSwitch(t)
      [] outcome = "exception" ->
           /\ Goto(t, "except")
           /\ UNCHANGED <<retry_count, test_proxies, proxy>>

\* lines 253-259: "self.use_proxy and self.current_proxy"; the direct request
\* of line 259 is issued in the same step.  use_proxy never goes back to True,
\* and it is True with current_proxy None only when no candidate exists, so
\* reading the two attributes in one step loses no outcome.
Tier2(t) ==
    /\ pc[t] = "tier2"
    /\ Goto(t, IF use_proxy /\ current_proxy # None THEN "tier2_send" ELSE "tier2_wait")
    /\ route' = [route EXCEPT ![t] = None]
    /\ UNCHANGED <<bridge, retry_count, test_proxies, proxy, loaded, failkey, in_connect,
                   msg, history, codec, manager, session>>

\* line 257: requests.get(url, proxies=self.proxies, ...); an empty mapping
\* routes the request directly
Tier2Send(t) ==
    /\ pc[t] = "tier2_send"
    /\ route' = [route EXCEPT ![t] = proxies]
    /\ Goto(t, "tier2_wait")
    /\ UNCHANGED <<bridge, retry_count, test_proxies, proxy, loaded, failkey, in_connect,
                   msg, history, codec, manager, session>>

\* lines 257 / 259: the request returns or raises; when it raises, the
\* handler of line 306 runs for the request sent by this route
Tier2ResponseOutcome(t, outcome) ==
    /\ pc[t] = "tier2_wait"
    /\ AfterResponse(t, outcome)
    /\ route' = [route EXCEPT ![t] = IF outcome = "exception" THEN @ ELSE None]
    /\ UNCHANGED <<bridge, loaded, failkey, in_connect, msg, history, codec, manager, session>>

Tier2Response(t) ==
    \E outcome \in {"ok", "status", "exception"} : Tier2ResponseOutcome(t, outcome)

\* Handle200Outcome with the "return" of line 299 forgotten: the loop goes on
Handle200Outcome_NoReturn(t, outcome) ==
    /\ pc[t] = "handle200"
    /\ IF outcome = "published"
       THEN /\ published' = [published EXCEPT ![t] = @ + 1]
            /\ Goto(t, "loop")
       ELSE /\ Goto(t, "except")
            /\ UNCHANGED published
    /\ UNCHANGED <<bridge, retry_count, test_proxies, proxy, loaded, failkey, in_connect,
                   attempts>>
    /\ UNCHANGED <<route, msg, codec, manager, session>>

\* Handle200Outcome with the error raised after the call of publish
Handle200Outcome_PublishThenRaise(t, outcome) ==
    /\ pc[t] = "handle200"
    /\ published' = [published EXCEPT ![t] = @ + 1]
    /\ Goto(t, IF outcome = "published" THEN "ret" ELSE "except")
    /\ UNCHANGED <<bridge, retry_count, test_proxies, proxy, loaded, failkey, in_connect,
                   attempts>>
    /\ UNCHANGED <<route, msg, codec, manager, session>>

\* lines 261-299: decode, normalize, publish, return; an error in any of them
\* is caught at line 306
Handle200Outcome(t, outcome) ==
    /\ pc[t] = "handle200"
    /\ IF outcome = "published"
       THEN /\ published' = [published EXCEPT ![t] = @ + 1]
            /\ Goto(t, "ret")
       ELSE /\ Goto(t, "except")
            /\ UNCHANGED published
    /\ UNCHANGED <<bridge, retry_count, test_proxies, proxy, loaded, failkey, in_connect,
                   attempts>>
    /\ UNCHANGED <<route, msg, codec, manager, session>>

Handle200(t) == \E outcome \in {"published", "error"} : Handle200Outcome(t, outcome)

\* lines 306-311: retry_count += 1; "if self.use_proxy and self.current_proxy"
Except(t) ==
    /\ pc[t] = "except"
    /\ retry_count' = [retry_count EXCEPT ![t] = @ + 1]
    /\ Goto(t, IF use_proxy /\ current_proxy # None THEN "exc_chk" ELSE "loop")
    /\ UNCHANGED <<bridge, test_proxies, proxy, loaded, failkey, in_connect, history>>
    /\ UNCHANGED <<route, msg, codec, manager, session>>

\* line 312: "if self.current_proxy not in self.proxy_failures"
ExcCheck(t) ==
    /\ pc[t] = "exc_chk"
    /\ Goto(t, IF proxy_failures[current_proxy] = 0 THEN "exc_set" ELSE "exc_load")
    /\ UNCHANGED <<bridge, retry_count, test_proxies, proxy, loaded, failkey, in_connect,
                   history>>
    /\ UNCHANGED <<route, msg, codec, manager, session>>

\* line 313: self.proxy_failures[self.current_proxy] = 1, then line 317
ExcSet(t) ==
    /\ pc[t] = "exc_set"
    /\ RecordWrite(current_proxy, 1)
    /\ StartFind(t)
    /\ UNCHANGED <<proxy_list, current_proxy, use_proxy, proxies, is_connected, stop_event,
                   enable_periodic_publishing, last_request_params, retry_count, loaded,
                   failkey, in_connect, attempts, published>>
    /\ route' = [route EXCEPT ![t] = None]
    /\ UNCHANGED <<msg, codec, manager, session>>

\* line 315, first half: the key and the old value of "+= 1"; a key that is
\* not in the dictionary raises KeyError inside the handler
ExcLoad(t) ==
    /\ pc[t] = "exc_load"
    /\ IF proxy_failures[current_proxy] = 0
       THEN /\ Goto(t, "raised")
            /\ UNCHANGED <<loaded, failkey>>
       ELSE /\ loaded' = [loaded EXCEPT ![t] = proxy_failures[current_proxy]]
            /\ failkey' = [failkey EXCEPT ![t] = current_proxy]
            /\ Goto(t, "exc_store")
    /\ UNCHANGED <<bridge, retry_count, test_proxies, proxy, in_connect, history>>
    /\ UNCHANGED <<route, msg, codec, manager, session>>

\* line 315, second half: the store, then line 317
ExcStore(t) ==
    /\ pc[t] = "exc_store"
    /\ RecordWrite(failkey[t], loaded[t] + 1)
    /\ loaded' = [loaded EXCEPT ![t] = 0]
    /\ failkey' = [failkey EXCEPT ![t] = None]
    /\ StartFind(t)
    /\ UNCHANGED <<proxy_list, current_proxy, use_proxy, proxies, is_connected, stop_event,
                   enable_periodic_publishing, last_request_params, retry_count, in_connect,
                   attempts, published>>
    /\ route' = [route EXCEPT ![t] = None]
    /\ UNCHANGED <<msg, codec, manager, session>>

\* ------------------------------------------------------------------ switch_proxy
\* line 329
SwitchCurrent(t) ==
    /\ pc[t] = "sw_cur"
    /\ current_proxy' = proxy[t]
    /\ Goto(t, "sw_prox")
    /\ UNCHANGED <<proxy_list, proxy_failures, use_proxy, proxies, is_connected, stop_event,
                   enable_periodic_publishing, last_request_params, retry_count,
                   test_proxies, proxy, loaded, failkey, in_connect, history>>
    /\ UNCHANGED <<route, msg, codec, manager, session>>

\* lines 330-333: the mapping is built from self.current_proxy, read again
SwitchProxies(t) ==
    /\ pc[t] = "sw_prox"
    /\ proxies' = current_proxy
    /\ proxy' = [proxy EXCEPT ![t] = None]
    /\ Goto(t, "loop")
    /\ UNCHANGED <<proxy_list, proxy_failures, current_proxy, use_proxy, is_connected,
                   stop_event, enable_periodic_publishing, last_request_params, retry_count,
                   test_proxies, loaded, failkey, in_connect, history>>
    /\ UNCHANGED <<route, msg, codec, manager, session>>

\* SwitchOff with the "self.use_proxy = False" of line 337 forgotten
SwitchOff_KeepsUseProxy(t) ==
    /\ pc[t] = "sw_off"
    /\ Goto(t, "sw_clear")
    /\ UNCHANGED <<bridge, retry_count, test_proxies, proxy, loaded, failkey, in_connect,
                   history>>
    /\ UNCHANGED <<route, msg, codec, manager, session>>

\* line 337
SwitchOff(t) ==
    /\ pc[t] = "sw_off"
    /\ use_proxy' = FALSE
    /\ Goto(t, "sw_clear")
    /\ UNCHANGED <<proxy_list, proxy_failures, current_proxy, proxies, is_connected,
                   stop_event, enable_periodic_publishing, last_request_params, retry_count,
                   test_proxies, proxy, loaded, failkey, in_connect, attempts, published>>
    /\ UNCHANGED <<route, msg, codec, manager, session>>

\* line 338
SwitchClear(t) ==
    /\ pc[t] = "sw_clear"
    /\ current_proxy' = None
    /\ Goto(t, "sw_empty")
    /\ UNCHANGED <<proxy_list, proxy_failures, use_proxy, proxies, is_connected, stop_event,
                   enable_periodic_publishing, last_request_params, retry_count,
                   test_proxies, proxy, loaded, failkey, in_connect, history>>
    /\ UNCHANGED <<route, msg, codec, manager, session>>

\* line 339
SwitchEmpty(t) ==
    /\ pc[t] = "sw_empty"
    /\ proxies' = None
    /\ proxy' = [proxy EXCEPT ![t] = None]
    /\ Goto(t, "loop")
    /\ UNCHANGED <<proxy_list, proxy_failures, current_proxy, use_proxy, is_connected,
                   stop_event, enable_periodic_publishing, last_request_params, retry_count,
                   test_proxies, loaded, failkey, in_connect, history>>
    /\ UNCHANGED <<route, msg, codec, manager, session>>

\* the locals of an invocation end with it
EndFetch(t) ==
    /\ retry_count' = [retry_count EXCEPT ![t] = 0]
    /\ attempts' = [attempts EXCEPT ![t] = 0]
    /\ published' = [published EXCEPT ![t] = 0]

\* "return" at line 299, or the loop's end at line 232
Return(t) ==
    /\ pc[t] = "ret"
    /\ EndFetch(t)
    /\ Goto(t, ReturnLabel(t))
    /\ UNCHANGED <<bridge, test_proxies, proxy, loaded, failkey, in_connect>>
    /\ UNCHANGED <<route, msg, codec, manager, session>>

\* an exception that leaves fetch_and_publish_data: on_message catches it
\* (line 224), the publisher loop catches it (line 362), on_connect does not
\* and it reaches the transport's delivery loop
Raised(t) ==
    /\ pc[t] = "raised"
    /\ EndFetch(t)
    /\ Goto(t, IF t = "tk" THEN "tk_wait" ELSE IF in_connect THEN "crashed" ELSE "idle")
    /\ UNCHANGED <<bridge, test_proxies, proxy, loaded, failkey, in_connect>>
    /\ route' = [route EXCEPT ![t] = None]
    /\ UNCHANGED <<msg, codec, manager, session>>

\* ------------------------------------------------------------ transport callbacks
\* OnConnectRc with the initial cycle started before the subscription
OnConnectRc_FetchFirst(rc) ==
    /\ pc["cb"] = "idle" /\ ~is_connected
    /\ connack' = <<rc>>
    /\ IF rc = 0
       THEN /\ is_connected' = TRUE
            /\ in_connect' = TRUE
            /\ StartFetch("cb")
       ELSE UNCHANGED <<is_connected, in_connect, pc, retry_count, attempts, published>>
    /\ UNCHANGED <<proxy_list, proxy_failures, current_proxy, use_proxy, proxies, stop_event,
                   enable_periodic_publishing, last_request_params, test_proxies, proxy,
                   loaded, failkey>>
    /\ UNCHANGED <<route, msg, codec, manager, subscribed, publisher_threads>>

\* on_connect, lines 173-177 and 187-188: the acknowledgement of a connection
\* (the first one, or one made by the transport's automatic reconnect); a
\* result code other than 0 is logged and nothing else
OnConnectRc(rc) ==
    /\ pc["cb"] = "idle" /\ ~is_connected
    /\ connack' = <<rc>>
    /\ IF rc = 0
       THEN /\ is_connected' = TRUE
            /\ in_connect' = TRUE
            /\ Goto("cb", "subscribe")
       ELSE UNCHANGED <<is_connected, in_connect, pc>>
    /\ UNCHANGED <<proxy_list, proxy_failures, current_proxy, use_proxy, proxies, stop_event,
                   enable_periodic_publishing, last_request_params, retry_count,
                   test_proxies, proxy, loaded, failkey, history>>
    /\ UNCHANGED <<route, msg, codec, manager, subscribed, publisher_threads>>

on_connect == \E rc \in {0, 5} : OnConnectRc(rc)

\* on_connect, lines 179-182: client.subscribe(self.request_topic), then the
\* call of fetch_and_publish_data
Subscribe ==
    /\ pc["cb"] = "subscribe"
    /\ subscribed' = TRUE
    /\ StartFetch("cb")
    /\ UNCHANGED <<bridge, test_proxies, proxy, loaded, failkey, in_connect, route, msg,
                   codec, manager, connack, publisher_threads>>

\* StartPublisher without the test of is_alive(): every acknowledgement
\* starts a thread
StartPublisher_NoAliveTest ==
    /\ pc["cb"] = "start_pub"
    /\ IF enable_periodic_publishing
       THEN /\ pc' = [pc EXCEPT !["cb"] = "idle",
                                !["tk"] = IF @ \in {"off", "exit"} THEN "tk_check" ELSE @]
            /\ publisher_threads' = publisher_threads + 1
       ELSE /\ Goto("cb", "idle")
            /\ UNCHANGED publisher_threads
    /\ in_connect' = FALSE
    /\ UNCHANGED <<bridge, retry_count, test_proxies, proxy, loaded, failkey, history>>
    /\ UNCHANGED <<route, msg, codec, manager, subscribed, connack>>

\* on_connect, lines 183-186: start the publisher thread unless one is alive
StartPublisher ==
    /\ pc["cb"] = "start_pub"
    /\ IF enable_periodic_publishing /\ pc["tk"] \in {"off", "exit"}
       THEN /\ pc' = [pc EXCEPT !["cb"] = "idle", !["tk"] = "tk_check"]
            /\ publisher_threads' = publisher_threads + 1
       ELSE /\ Goto("cb", "idle")
            /\ UNCHANGED publisher_threads
    /\ in_connect' = FALSE
    /\ UNCHANGED <<bridge, retry_count, test_proxies, proxy, loaded, failkey, history>>
    /\ UNCHANGED <<route, msg, codec, manager, subscribed, connack>>

\* on_disconnect with the cached request parameters forgotten
on_disconnect_ForgetsParams ==
    /\ pc["cb"] = "idle" /\ is_connected
    /\ is_connected' = FALSE
    /\ subscribed' = FALSE
    /\ last_request_params' = "unset"
    /\ UNCHANGED <<proxy_list, proxy_failures, current_proxy, use_proxy, proxies, stop_event,
                   enable_periodic_publishing, locals, history>>
    /\ UNCHANGED <<codec, manager, connack, publisher_threads>>

\* on_disconnect, lines 190-196: the connection is lost, and the broker's
\* subscription with it; the result code only selects what is logged
on_disconnect ==
    /\ pc["cb"] = "idle" /\ is_connected
    /\ is_connected' = FALSE
    /\ subscribed' = FALSE
    /\ UNCHANGED <<proxy_list, proxy_failures, current_proxy, use_proxy, proxies, stop_event,
                   enable_periodic_publishing, last_request_params, locals, history>>
    /\ UNCHANGED <<codec, manager, connack, publisher_threads>>

\* the delivery loop takes an inbound message and calls on_message with it
Receive(m) ==
    /\ pc["cb"] = "idle" /\ is_connected
    /\ msg' = m
    /\ Goto("cb", "on_msg")
    /\ UNCHANGED <<bridge, retry_count, test_proxies, proxy, loaded, failkey, in_connect,
                   route, history, codec, manager, session>>

receive == \E m \in Messages : Receive(m)

\* on_message with the cached parameters merged member by member: the center
\* and the radius_km of the old object stay where the new one has none
on_message_Merging ==
    /\ pc["cb"] = "on_msg"
    /\ last_request_params' =
         IF Decoded(msg) /\ msg.params = "no_center" /\ last_request_params \in ParamObjects
         THEN last_request_params
         ELSE CachedAfter(msg, last_request_params)
    /\ IF StartsCycle(msg)
       THEN StartFetch("cb")
       ELSE /\ Goto("cb", "idle")
            /\ UNCHANGED <<retry_count, attempts, published>>
    /\ msg' = NoMsg
    /\ UNCHANGED <<proxy_list, proxy_failures, current_proxy, use_proxy, proxies,
                   is_connected, stop_event, enable_periodic_publishing, test_proxies, proxy,
                   loaded, failkey, in_connect, route, codec, manager, session>>

\* on_message, lines 198-225
on_message ==
    /\ pc["cb"] = "on_msg"
    /\ last_request_params' = CachedAfter(msg, last_request_params)
    /\ IF StartsCycle(msg)
       THEN StartFetch("cb")
       ELSE /\ Goto("cb", "idle")
            /\ UNCHANGED <<retry_count, attempts, published>>
    /\ msg' = NoMsg
    /\ UNCHANGED <<proxy_list, proxy_failures, current_proxy, use_proxy, proxies,
                   is_connected, stop_event, enable_periodic_publishing, test_proxies, proxy,
                   loaded, failkey, in_connect, route, codec, manager, session>>

\* ------------------------------------------------------ _periodic_publisher_loop
\* PublisherCheck without the test of the stop flag
PublisherCheck_NoStopTest ==
    /\ pc["tk"] = "tk_check"
    /\ StartFetch("tk")
    /\ UNCHANGED <<bridge, test_proxies, proxy, loaded, failkey, in_connect>>
    /\ UNCHANGED <<route, msg, codec, manager, session>>

\* lines 358-361
PublisherCheck ==
    /\ pc["tk"] = "tk_check"
    /\ IF stop_event
       THEN /\ Goto("tk", "exit")
            /\ publisher_threads' = publisher_threads - 1
            /\ UNCHANGED <<retry_count, attempts, published>>
       ELSE /\ StartFetch("tk")
            /\ UNCHANGED publisher_threads
    /\ UNCHANGED <<bridge, test_proxies, proxy, loaded, failkey, in_connect>>
    /\ UNCHANGED <<route, msg, codec, manager, subscribed, connack>>

\* a wait that a set stop flag does not end
PublisherWait_MissesStop ==
    /\ pc["tk"] = "tk_wait"
    /\ ~stop_event
    /\ Goto("tk", "tk_check")
    /\ UNCHANGED <<bridge, retry_count, test_proxies, proxy, loaded, failkey, in_connect,
                   history>>
    /\ UNCHANGED <<route, msg, codec, manager, session>>

\* lines 364-369
PublisherWait ==
    /\ pc["tk"] = "tk_wait"
    /\ Goto("tk", "tk_check")
    /\ UNCHANGED <<bridge, retry_count, test_proxies, proxy, loaded, failkey, in_connect,
                   history>>
    /\ UNCHANGED <<route, msg, codec, manager, session>>

\* -------------------------------------------------------------- run / connect
\* connect, lines 154-163: True with the delivery loop started, or False when
\* the transport's connect raises; run (lines 343-347) then idles, or goes to
\* its finally clause
ConnectOutcome(ok) ==
    /\ pc["main"] = "constructed"
    /\ pc' = IF ok THEN [pc EXCEPT !["main"] = "running", !["cb"] = "idle"]
             ELSE [pc EXCEPT !["main"] = "connect_failed"]
    /\ UNCHANGED <<bridge, retry_count, test_proxies, proxy, loaded, failkey, in_connect,
                   history>>
    /\ UNCHANGED <<route, msg, codec, manager, session>>

connect == \E ok \in BOOLEAN : ConnectOutcome(ok)

\* disconnect, line 167 (run's finally, after KeyboardInterrupt or after a
\* connect that returned False): the stop flag
disconnect ==
    /\ pc["main"] \in {"running", "connect_failed"}
    /\ Goto("main", "stopping")
    /\ stop_event' = TRUE
    /\ UNCHANGED <<proxy_list, proxy_failures, current_proxy, use_proxy, proxies,
                   is_connected, enable_periodic_publishing, last_request_params,
                   retry_count, test_proxies, proxy, loaded, failkey, in_connect, history>>
    /\ UNCHANGED <<route, msg, codec, manager, session>>

\* disconnect, line 169: loop_stop() joins the delivery loop's thread, so it
\* returns when no callback is running, and none runs after it
loop_stop ==
    /\ pc["main"] = "stopping"
    /\ pc["cb"] \in {"off", "idle", "crashed"}
    /\ pc' = [pc EXCEPT !["main"] = "loop_stopped",
                        !["cb"] = IF @ = "idle" THEN "off" ELSE @]
    /\ UNCHANGED <<bridge, retry_count, test_proxies, proxy, loaded, failkey, in_connect,
                   history>>
    /\ UNCHANGED <<route, msg, codec, manager, session>>

\* disconnect, line 170: mqtt_client.disconnect() closes the connection; the
\* stopped delivery loop calls no on_disconnect
close ==
    /\ pc["main"] = "loop_stopped"
    /\ Goto("main", "stopped")
    /\ UNCHANGED <<bridge, retry_count, test_proxies, proxy, loaded, failkey, in_connect,
                   history>>
    /\ UNCHANGED <<route, msg, codec, manager, session>>

\* ------------------------------------------------------------------ Next
Step(t) ==
    \/ FindNext(t)
    \/ Probe(t)
    \/ ProbeStore(t)
    \/ Loop(t)
    \/ Tier1(t)
    \/ Tier2(t)
    \/ Tier2Send(t)
    \/ Tier2Response(t)
    \/ Handle200(t)
    \/ Except(t)
    \/ ExcCheck(t)
    \/ ExcSet(t)
    \/ ExcLoad(t)
    \/ ExcStore(t)
    \/ SwitchCurrent(t)
    \/ SwitchProxies(t)
    \/ SwitchOff(t)
    \/ SwitchClear(t)
    \/ SwitchEmpty(t)
    \/ Return(t)

\* the main thread and the transport's delivery loop
Next ==
    \/ Construct
    \/ connect
    \/ disconnect
    \/ loop_stop
    \/ close
    \/ on_connect
    \/ Subscribe
    \/ StartPublisher
    \/ on_disconnect
    \/ receive
    \/ on_message
    \/ \E t \in Threads : Step(t)

\* the same with the publisher thread
NextPeriodic ==
    \/ Next
    \/ PublisherCheck
    \/ PublisherWait
    \/ \E t \in Workers : Raised(t)

\* the default configuration: every cycle runs on the delivery loop's thread
Spec == Init /\ [][Next]_vars

\* periodic publishing: cycles of the delivery loop and of the publisher
\* thread interleave
SpecPeriodic == InitPeriodic /\ [][NextPeriodic]_vars

\* the steps of the publisher thread
Publisher == PublisherCheck \/ PublisherWait \/ Step("tk") \/ Raised("tk")

\* the only message on the request topic gives a center and asks for no cycle
receive_center == Receive(ObjectMessage(request_topic, "status", "center"))

NextTicker ==
    \/ Construct
    \/ connect
    \/ disconnect
    \/ loop_stop
    \/ close
    \/ on_connect
    \/ Subscribe
    \/ StartPublisher
    \/ on_disconnect
    \/ receive_center
    \/ on_message
    \/ \E t \in Threads : Step(t)
    \/ PublisherCheck
    \/ PublisherWait
    \/ \E t \in Workers : Raised(t)

\* periodic publishing with the publisher thread scheduled whenever it can
\* run: its network calls return or time out (timeout=10 and timeout=5 in the
\* requests), time.sleep(2) and stop_event.wait(delay) return
SpecTicker == InitPeriodic /\ [][NextTicker]_vars /\ WF_vars(Publisher)

\* ------------------------------------------------- the data path, taken alone
\* lines 241-242
ComputeRadius ==
    /\ radius_km # NoRadius /\ radius_m = NotComputed
    /\ radius_m' = radius_m_of(radius_km)
    /\ UNCHANGED <<bridge, locals, history, session, manager, radius_km, data, payload>>

\* lines 262-297
Normalize ==
    /\ data # NoData /\ payload = NoPayload
    /\ payload' = publish_of(data)
    /\ UNCHANGED <<bridge, locals, history, session, manager, radius_km, radius_m, data>>

NextData == ComputeRadius \/ Normalize

SpecData == InitData /\ [][NextData]_vars

\* ------------------------------------- TestProxy.py: ProxyTrafficDataManager
\* One caller (the script is single-threaded): a method runs to its return
\* before the next call; fetch_data is followed step by step.
available_proxies ==
    SelectSeq(manager_proxy_list, LAMBDA p : ~InList(p, failed_proxies))

Returns(method, value) == called' = method /\ returned' = value

Py(b) == IF b THEN "True" ELSE "False"

\* a selection that does not leave out the failed entries
SelectRandomProxy_AnyLoaded(ret) ==
    /\ IF manager_proxy_list = <<>>
       THEN /\ ret = FALSE
            /\ UNCHANGED <<selected_proxy, proxy_host, proxy_port>>
       ELSE /\ ret = TRUE
            /\ \E i \in 1 .. Len(manager_proxy_list) :
                 LET parsed == parse_selected_proxy(manager_proxy_list[i], proxy_host,
                                                    proxy_port)
                 IN /\ selected_proxy' = manager_proxy_list[i]
                    /\ proxy_host' = parsed.host
                    /\ proxy_port' = parsed.port
    /\ UNCHANGED <<manager_proxy_list, manager_max_retries, verified_proxies,
                   failed_proxies, probe>>

\* select_random_proxy, lines 51-62, returning ret; the result of
\* parse_selected_proxy (line 61) is not looked at
SelectRandomProxy(ret) ==
    /\ IF available_proxies = <<>>
       THEN /\ ret = FALSE
            /\ UNCHANGED <<selected_proxy, proxy_host, proxy_port>>
       ELSE /\ ret = TRUE
            /\ \E i \in 1 .. Len(available_proxies) :
                 LET parsed == parse_selected_proxy(available_proxies[i], proxy_host,
                                                    proxy_port)
                 IN /\ selected_proxy' = available_proxies[i]
                    /\ proxy_host' = parsed.host
                    /\ proxy_port' = parsed.port
    /\ UNCHANGED <<manager_proxy_list, manager_max_retries, verified_proxies,
                   failed_proxies, probe>>

\* verify_proxy, lines 100-131, returning ret; outcome is what the test
\* request through http://proxy_host:proxy_port does
VerifyProxy(outcome, ret) ==
    /\ IF ~TruthyHost(proxy_host)
       THEN /\ ret = FALSE
            /\ UNCHANGED <<verified_proxies, failed_proxies, probe>>
       ELSE /\ probe' = [entry |-> selected_proxy, host |-> proxy_host, port |-> proxy_port]
            /\ IF outcome = "200"
               THEN /\ ret = TRUE
                    /\ verified_proxies' = AppendNew(verified_proxies, selected_proxy)
                    /\ UNCHANGED failed_proxies
               ELSE /\ ret = FALSE
                    /\ failed_proxies' = AppendNew(failed_proxies, selected_proxy)
                    /\ UNCHANGED verified_proxies
    /\ UNCHANGED <<manager_proxy_list, manager_max_retries, selected_proxy, proxy_host,
                   proxy_port>>

\* create_api_request, lines 133-167; outcome is what requests.request does
CreateApiRequest(outcome) ==
    /\ sent' = IF TruthyHost(proxy_host) /\ TruthyPort(proxy_port)
               THEN <<proxy_host, proxy_port>>
               ELSE Direct
    /\ failed_proxies' = IF outcome = "exception"
                         THEN AppendNew(failed_proxies, selected_proxy)
                         ELSE failed_proxies
    /\ UNCHANGED <<manager_proxy_list, manager_max_retries, selected_proxy, proxy_host,
                   proxy_port, verified_proxies, probe>>

Outcomes == {"200", "other", "exception"}

\* ---- the methods called one by one
select_random_proxy ==
    /\ mpc = "idle"
    /\ \E ret \in BOOLEAN :
         SelectRandomProxy(ret) /\ Returns("select_random_proxy", Py(ret))
    /\ UNCHANGED <<mpc, retries, proxy_found, tries, passed, sent, api_requests>>
    /\ UNCHANGED <<bridge, locals, history, codec, session>>

verify_proxy ==
    /\ mpc = "idle"
    /\ \E outcome \in Outcomes, ret \in BOOLEAN :
         VerifyProxy(outcome, ret) /\ Returns("verify_proxy", Py(ret))
    /\ UNCHANGED <<mpc, retries, proxy_found, tries, passed, sent, api_requests>>
    /\ UNCHANGED <<bridge, locals, history, codec, session>>

create_api_request ==
    /\ mpc = "idle"
    /\ \E outcome \in Outcomes :
         /\ CreateApiRequest(outcome)
         /\ Returns("create_api_request", IF outcome = "exception" THEN "None" ELSE outcome)
    /\ UNCHANGED <<mpc, retries, proxy_found, tries, passed, api_requests>>
    /\ UNCHANGED <<bridge, locals, history, codec, session>>

\* ---- fetch_data, lines 169-199
\* line 171
fetch_data ==
    /\ mpc = "idle"
    /\ mpc' = "while"
    /\ retries' = 0
    /\ api_requests' = 0
    /\ passed' = NoAddress
    /\ sent' = NoAddress
    /\ UNCHANGED <<attributes, proxy_found, tries, called, returned, probe>>
    /\ UNCHANGED <<bridge, locals, history, codec, session>>

\* lines 173-175 and 198-199
While ==
    /\ mpc = "while"
    /\ IF retries <= manager_max_retries
       THEN /\ mpc' = "for"
            /\ proxy_found' = FALSE
            /\ tries' = 0
            /\ passed' = NoAddress
            /\ sent' = NoAddress
            /\ UNCHANGED <<called, returned>>
       ELSE /\ mpc' = "idle"
            /\ Returns("fetch_data", "None")
            /\ UNCHANGED <<proxy_found, tries, passed, sent>>
    /\ UNCHANGED <<attributes, retries, probe, api_requests>>
    /\ UNCHANGED <<bridge, locals, history, codec, session>>

\* lines 176-177, the left operand of "and"
For ==
    /\ mpc = "for"
    /\ IF tries < Min(TryLimit, Len(manager_proxy_list))
       THEN /\ tries' = tries + 1
            /\ \E ret \in BOOLEAN :
                 /\ SelectRandomProxy(ret)
                 /\ Returns("select_random_proxy", Py(ret))
                 /\ mpc' = IF ret THEN "verify" ELSE "for"
       ELSE /\ mpc' = "found"
            /\ UNCHANGED <<attributes, tries, called, returned, probe>>
    /\ UNCHANGED <<retries, proxy_found, passed, sent, api_requests>>
    /\ UNCHANGED <<bridge, locals, history, codec, session>>

\* lines 177-179, the right operand
Verify ==
    /\ mpc = "verify"
    /\ \E outcome \in Outcomes, ret \in BOOLEAN :
         /\ VerifyProxy(outcome, ret)
         /\ Returns("verify_proxy", Py(ret))
         /\ IF ret
            THEN /\ proxy_found' = TRUE
                 /\ passed' = <<proxy_host, proxy_port>>
                 /\ mpc' = "found"
            ELSE /\ mpc' = "for"
                 /\ UNCHANGED <<proxy_found, passed>>
    /\ UNCHANGED <<retries, tries, sent, api_requests>>
    /\ UNCHANGED <<bridge, locals, history, codec, session>>

\* lines 181-183
CheckFound ==
    /\ mpc = "found"
    /\ IF proxy_found
       THEN mpc' = "request" /\ UNCHANGED <<called, returned>>
       ELSE mpc' = "idle" /\ Returns("fetch_data", "None")
    /\ UNCHANGED <<attributes, retries, proxy_found, tries, probe, passed, sent, api_requests>>
    /\ UNCHANGED <<bridge, locals, history, codec, session>>

\* lines 186-196
Request ==
    /\ mpc = "request"
    /\ api_requests' = api_requests + 1
    /\ \E outcome \in Outcomes :
         /\ CreateApiRequest(outcome)
         /\ IF outcome = "200"
            THEN /\ mpc' = "idle"
                 /\ Returns("fetch_data", "data")
                 /\ UNCHANGED retries
            ELSE /\ mpc' = "while"
                 /\ Returns("create_api_request",
                            IF outcome = "exception" THEN "None" ELSE outcome)
                 /\ retries' = retries + 1
    /\ UNCHANGED <<proxy_found, tries, passed>>
    /\ UNCHANGED <<bridge, locals, history, codec, session>>

NextManager ==
    \/ select_random_proxy
    \/ verify_proxy
    \/ create_api_request
    \/ fetch_data
    \/ While
    \/ For
    \/ Verify
    \/ CheckFound
    \/ Request

SpecManager == InitManager /\ [][NextManager]_vars

\* ================================================================== claims
\* positions inside find_working_proxy / test_proxy
FindPcs == {"find", "probe", "probe_store"}
\* positions of a pass of the Tier 1 / Tier 2 chain, up to its outcome
PassPcs == {"loop", "tier1", "tier2", "tier2_send", "tier2_wait", "handle200"}
\* positions inside fetch_and_publish_data
FetchPcs == PassPcs \cup FindPcs \cup
            {"except", "exc_chk", "exc_set", "exc_load", "exc_store",
             "sw_cur", "sw_prox", "sw_off", "sw_clear", "sw_empty", "ret"}
\* thread t takes the step
StepOf(t) == pc'[t] # pc[t] \/ test_proxies'[t] # test_proxies[t]
\* __init__ has returned
Constructed == pc["main"] \in {"constructed", "running", "connect_failed", "stopping",
                              "loop_stopped", "stopped"}

\* C1: a proxy whose failure counter is at 3 or more is not returned by
\* find_working_proxy (the probe of test_proxy reporting success) and does not
\* become current_proxy.
C1_BlacklistedNeverSelected ==
    [][\A p \in Proxies :
         proxy_failures[p] >= FailureLimit =>
           /\ \A t \in Threads :
                ~(pc[t] = "probe" /\ proxy[t] = p /\ pc'[t] \in {"sw_cur", "constructed"})
           /\ (current_proxy' = p => current_proxy = p)]_vars

\* C2: every failure-record statement that completes leaves the counter one
\* above the value it had just before the store: no increment is lost or
\* duplicated by the interleaving of the read and the write.
C2_NoLostUpdate ==
    [][\A t \in Threads :
         /\ (pc[t] \in {"probe_store", "exc_store"} /\ StepOf(t)) =>
               proxy_failures'[failkey[t]] = proxy_failures[failkey[t]] + 1
         /\ (pc[t] = "exc_set" /\ StepOf(t)) =>
               proxy_failures'[current_proxy] = proxy_failures[current_proxy] + 1]_vars

\* C3: no step lowers a proxy's failure counter.
C3_FailuresNeverDecrease ==
    [][\A p \in Proxies : proxy_failures'[p] >= proxy_failures[p]]_vars

\* C4: after construction, use_proxy implies that current_proxy is set and
\* has fewer than 3 recorded failures.
C4_UseProxyImpliesCurrent ==
    (Constructed /\ use_proxy) =>
        (current_proxy # None /\ proxy_failures[current_proxy] < FailureLimit)

\* C5: an invocation of fetch_and_publish_data starts at most 3 passes of the
\* Tier 1 / Tier 2 chain; once three have failed it starts no request, has
\* published nothing, and the loop's test returns.
C5_AtMostThreeAttempts ==
    \A t \in Workers :
        /\ attempts[t] <= max_retries
        /\ retry_count[t] <= attempts[t]
        /\ retry_count[t] >= max_retries =>
              /\ published[t] = 0
              /\ pc[t] \notin {"tier1", "tier2", "tier2_send", "tier2_wait", "handle200",
                            "except"}

C5_Witness ==
    \E t \in Workers :
        pc[t] = "ret" /\ attempts[t] = max_retries /\ retry_count[t] = max_retries
        /\ published[t] = 0

\* C6: the step that ends a failed attempt made with a proxy active and goes
\* on to the rotation raises that proxy's failure counter by one.
C6_FailedAttemptRecorded ==
    [][\A t \in Workers :
         (pc[t] \notin FindPcs /\ pc'[t] = "find" /\ use_proxy /\ current_proxy # None) =>
             proxy_failures'[current_proxy] = proxy_failures[current_proxy] + 1]_vars

\* C7: the steps of a pass that ends in a publication leave current_proxy,
\* use_proxy, the proxies mapping and the failure counters alone; the
\* publishing step goes to the return, with no further pass and no rotation.
C7_SuccessReturnsAtOnce ==
    [][\A t \in Workers :
         /\ (pc[t] \in PassPcs /\ pc'[t] \in PassPcs \cup {"ret"} /\ StepOf(t)) =>
               UNCHANGED <<current_proxy, use_proxy, proxies, proxy_failures>>
         /\ published'[t] > published[t] =>
               /\ pc[t] = "handle200" /\ pc'[t] = "ret"
               /\ published'[t] = 1
               /\ UNCHANGED <<attempts, retry_count, test_proxies>>
         /\ (pc[t] = "ret" /\ StepOf(t)) =>
               pc'[t] \in {"idle", "start_pub", "tk_wait"}]_vars

C7_Witness ==
    \E t \in Workers :
        /\ pc[t] = "ret" /\ published[t] = 1 /\ attempts[t] = 2
        /\ use_proxy /\ current_proxy # None

\* C8: a cycle whose attempts all fail publishes nothing, lets no exception
\* out of fetch_and_publish_data, and does not write is_connected.
C8_FailedCycleIsSilent ==
    [][\A t \in Workers :
         /\ pc'[t] # "raised"
         /\ (pc'[t] = "ret" /\ retry_count'[t] >= max_retries) => published'[t] = 0
         /\ (pc[t] \in FetchPcs /\ StepOf(t)) => is_connected' = is_connected]_vars

\* C9: find_working_proxy reports no candidate only after visiting every one,
\* without probing a candidate that has 3 or more failures; switch_proxy then
\* sets use_proxy to false and clears current_proxy; use_proxy stays false, and
\* with use_proxy false the Tier 2 request of an attempt is issued directly.
C9_NoCandidateGoesDirect ==
    [][\A t \in Workers :
         /\ (pc[t] = "find" /\ pc'[t] = "sw_off") => test_proxies[t] = {}
         /\ (pc[t] = "find" /\ pc'[t] = "probe") =>
               proxy_failures[proxy'[t]] < FailureLimit
         /\ (pc[t] = "sw_off" /\ StepOf(t)) => (~use_proxy' /\ pc'[t] = "sw_clear")
         /\ (pc[t] = "sw_clear" /\ StepOf(t)) => current_proxy' = None
         /\ ~use_proxy => ~use_proxy'
         /\ (~use_proxy /\ pc[t] = "tier2" /\ StepOf(t)) => pc'[t] # "tier2_send"]_vars

\* pool [A(failures=0), B(failures=3)], A's probe fails, the rotation found nothing
C9_Witness ==
    /\ Len(proxy_list) = 2
    /\ proxy_failures[1] = 0 /\ proxy_failures[2] = FailureLimit
    /\ pc["cb"] = "sw_empty" /\ ~use_proxy /\ current_proxy = None
    /\ retry_count["cb"] < max_retries

\* C10: when switch_proxy has found a working candidate, use_proxy is true
\* at its return, also after use_proxy had been forced to false.
C10_UseProxyRestored ==
    [][\A t \in Workers : (pc[t] = "sw_prox" /\ StepOf(t)) => use_proxy']_vars

\* the cached parameters contain both center_lat and center_lon
HasCenter(params) == params \in {"center", "bad_radius"}
\* thread t starts an attempt: the loop test of line 232 passes
StartsAttempt(t) == pc[t] = "loop" /\ StepOf(t) /\ retry_count[t] < max_retries

\* C11: an attempt issues the Tier 1 request if and only if the cached
\* parameters contain both center_lat and center_lon, and the Tier 1 request
\* is issued directly (no proxies argument), whatever use_proxy is.
C11_Tier1IffCenter ==
    [][\A t \in Workers :
         /\ StartsAttempt(t) =>
               (pc'[t] = "tier1" <=> HasCenter(last_request_params))
         /\ pc'[t] = "tier1" => route'[t] = None]_vars

\* C12: a Tier 1 request that fails (status other than 200, or exception) is
\* followed, in the same attempt, by the Tier 2 request: the retry counter, the
\* number of attempts, the failure counters and the proxy selection are left
\* alone and no rotation starts.
C12_Tier1FailureAbsorbed ==
    [][\A t \in Workers :
         /\ (pc[t] = "tier1" /\ StepOf(t)) =>
               /\ pc'[t] \in {"handle200", "tier2"}
               /\ retry_count'[t] = retry_count[t]
               /\ attempts'[t] = attempts[t]
               /\ test_proxies'[t] = test_proxies[t]
               /\ UNCHANGED <<proxy_failures, current_proxy, use_proxy, proxies>>
         /\ (pc[t] = "tier2" /\ StepOf(t)) =>
               /\ pc'[t] \in {"tier2_send", "tier2_wait"}
               /\ retry_count'[t] = retry_count[t]
               /\ attempts'[t] = attempts[t]]_vars

\* the Tier 1 request of the first attempt has failed and its Tier 2 request
\* is in flight (in a sequential run the cached parameters are those the
\* attempt read)
C12_Witness ==
    /\ pc["cb"] = "tier2_wait" /\ last_request_params = "center"
    /\ retry_count["cb"] = 0 /\ attempts["cb"] = 1
    /\ ~enable_periodic_publishing

\* C13: an attempt that reaches the fallback issues exactly one Tier 2
\* request; the request goes through a proxy when the check of line 256 found
\* use_proxy true and current_proxy set, and directly otherwise.
C13_OneTier2Request ==
    [][\A t \in Workers :
         /\ (pc[t] = "tier2" /\ StepOf(t)) =>
               /\ pc'[t] = IF use_proxy /\ current_proxy # None
                           THEN "tier2_send" ELSE "tier2_wait"
               /\ route'[t] = None
         /\ (pc[t] = "tier2_send" /\ StepOf(t)) =>
               /\ pc'[t] = "tier2_wait"
               /\ route'[t] # None
         /\ (pc[t] = "tier2_wait" /\ StepOf(t)) =>
               pc'[t] \notin {"tier2", "tier2_send", "tier2_wait"}]_vars

\* C14: for an integer radius_km the dist parameter of the Tier 1 request is
\* radius_km * 1000 limited to 10000 .. 400000; 1 gives 10000, 1000 gives
\* 400000, and an absent radius_km counts as 250 and gives 250000.
C14_RadiusClamp ==
    (radius_m # NotComputed /\ radius_km.kind \in {"int", "absent"}) =>
        LET km == IF radius_km.kind = "absent" THEN 250 ELSE radius_km.n
            metres == km * 1000
        IN  /\ radius_m.status = "ok"
            /\ radius_m.dist = IF metres < 10000 THEN 10000
                               ELSE IF metres > 400000 THEN 400000 ELSE metres
            /\ (radius_km.kind = "int" /\ radius_km.n = 1) => radius_m.dist = 10000
            /\ (radius_km.kind = "int" /\ radius_km.n = 1000) => radius_m.dist = 400000
            /\ radius_km.kind = "absent" => radius_m.dist = 250000

\* radius_km = 1000 has been converted
C14_Witness ==
    radius_km = RadiusMember("int", 1000) /\ radius_m = [status |-> "ok", dist |-> 400000]

\* the body has an 'ac' list: the snapshot is built by lines 265-293
FromAcList == data.type = "object" /\ "ac" \in data.keys /\ data.ac_list

\* C15: every record of a snapshot built from an 'ac' list has 17 positional
\* fields; those at (0-based) indices 3, 4 and 12 to 16 are null; a missing
\* numeric member gives 0, a missing string member the empty string and a
\* missing ground flag false.
C15_Tier1RecordShape ==
    (FromAcList /\ payload # NoPayload) =>
        /\ payload.states_list
        /\ Len(payload.states) = Len(data.ac)
        /\ \A i \in 1 .. Len(data.ac) :
             LET row == payload.states[i]
                 ac == data.ac[i]
                 missing(f) == ac[f] = "absent"
             IN  /\ Len(row) = 17
                 /\ \A j \in {4, 5} \cup 13 .. 17 : row[j] = "null"
                 /\ (missing("icao") /\ missing("hex")) => row[1] = "''"
                 /\ missing("call") => row[2] = "''"
                 /\ row[3] = "''"
                 /\ missing("lon") => row[6] = "0"
                 /\ missing("lat") => row[7] = "0"
                 /\ (missing("alt_baro") /\ missing("alt_baro_ft")) => row[8] = "0"
                 /\ missing("gnd") => row[9] = "false"
                 /\ missing("gs") => row[10] = "0"
                 /\ missing("track") => row[11] = "0"
                 /\ missing("roc") => row[12] = "0"

\* a snapshot of two records, the second built from an object with no member
C15_Witness ==
    /\ FromAcList /\ Len(data.ac) = 2
    /\ \A f \in AcFields : data.ac[1][f] # "absent" /\ data.ac[2][f] = "absent"
    /\ payload # NoPayload /\ Len(payload.states) = 2

\* the shape {time, states} with records of 17 fields
Canonical(p) ==
    /\ p.type = "object"
    /\ p.keys = {"time", "states"}
    /\ p.states_list
    /\ \A i \in 1 .. Len(p.states) : Len(p.states[i]) = 17

\* C16: every object handed to publish has the shape {time, states} with
\* records of 17 fields, whatever the body of the 200 response was.
C16_PublishedIsCanonical ==
    payload \notin {NoPayload, RaisedPayload} => Canonical(payload)

\* on_message is handling msg and takes its step
Handles == pc["cb"] = "on_msg" /\ StepOf("cb")
\* {"command":"update"}, "update" and "  Update  " on the request topic
UpdateTriggers ==
    { ObjectMessage(request_topic, "update", "no_center"),
      TextMessage(request_topic, Update),
      TextMessage(request_topic, PaddedUpdate) }
ProxyState == <<current_proxy, use_proxy, proxies, proxy_failures>>

\* C17 as stated: from one session state the three update triggers start
\* cycles that do the same about Tier 1 (the cycle of each runs with the
\* cached parameters its on_message leaves).
C17_TriggersEquivalent ==
    \A m1, m2 \in UpdateTriggers :
        /\ StartsCycle(m1) /\ StartsCycle(m2)
        /\ Tier1Plan(CachedAfter(m1, last_request_params))
             = Tier1Plan(CachedAfter(m2, last_request_params))

\* C17: each of the three update triggers starts one cycle, from the same
\* proxy state; the two raw texts leave the cached parameters as they are;
\* the structured payload replaces them by itself, so its cycle does the same
\* about Tier 1 as theirs when the cached parameters made Tier 1 be skipped.
C17_UpdateTriggersStartCycle ==
    [][(Handles /\ msg \in UpdateTriggers) =>
         /\ pc'["cb"] = "loop"
         /\ retry_count'["cb"] = 0
         /\ UNCHANGED ProxyState
         /\ msg.kind = "text" => UNCHANGED last_request_params
         /\ msg.kind = "object" => last_request_params' = msg.params
         /\ Tier1Plan(last_request_params) = "skip" =>
               Tier1Plan(last_request_params') = "skip"]_vars

\* "  Update  " is being handled while the cached parameters hold a center
C17_Witness ==
    /\ pc["cb"] = "on_msg"
    /\ msg = TextMessage(request_topic, PaddedUpdate)
    /\ last_request_params = "center"

\* C18: on_message with a topic other than the request topic starts no cycle
\* and leaves is_connected, the proxy state, the cached parameters and the
\* failure counters unchanged.
C18_OtherTopicIgnored ==
    [][(Handles /\ msg.topic # request_topic) =>
         /\ pc'["cb"] = "idle"
         /\ UNCHANGED <<is_connected, last_request_params, ProxyState>>
         /\ UNCHANGED <<retry_count, attempts, published>>]_vars

\* {"command":"update", center...} arrives on the other topic while nothing
\* with a center is cached
C18_Witness ==
    /\ pc["cb"] = "on_msg"
    /\ msg = ObjectMessage("other/topic", "update", "center")
    /\ last_request_params = "no_center"

\* the payload is no structured message (json.loads gives no object, or
\* raises, or the bytes are no text) and its text is not "update"
Malformed(m) ==
    /\ m.kind # "object"
    /\ ~(m.kind = "text" /\ lower(strip(m.text)) = Update)

\* C19: a malformed payload on the request topic is dropped: no cycle starts,
\* no exception leaves on_message, the cached parameters and the proxy state
\* are unchanged.
C19_MalformedDropped ==
    [][(Handles /\ msg.topic = request_topic /\ Malformed(msg)) =>
         /\ pc'["cb"] = "idle"
         /\ UNCHANGED <<last_request_params, ProxyState>>]_vars

\* C20: a decoded object on the request topic replaces the cached parameters
\* whatever its command, and starts a cycle if and only if the command is
\* "update"; a raw-text "update" starts a cycle with the cached parameters
\* untouched, and an attempt does about Tier 1 what the cached parameters say.
C20_CacheReplacedWholesale ==
    [][/\ (Handles /\ msg.topic = request_topic /\ msg.kind = "object") =>
            /\ last_request_params' = msg.params
            /\ pc'["cb"] = "loop" <=> msg.command = "update"
       /\ (Handles /\ msg.topic = request_topic /\ msg.kind = "text") =>
            /\ UNCHANGED last_request_params
            /\ pc'["cb"] = "loop" <=> lower(strip(msg.text)) = Update
       /\ StartsAttempt("cb") =>
            pc'["cb"] = CASE Tier1Plan(last_request_params) = "request" -> "tier1"
                          [] Tier1Plan(last_request_params) = "skip" -> "tier2"
                          [] OTHER -> "except"]_vars

\* {"command":"status"} without a center is being handled while the cached
\* parameters hold a center
C20_Witness ==
    /\ pc["cb"] = "on_msg"
    /\ msg = ObjectMessage(request_topic, "status", "no_center")
    /\ last_request_params = "center"

\* the last acknowledgement refused the connection
Refused == connack # <<>> /\ connack[1] # 0
\* the delivery loop takes the step of on_connect for an accepted connection
Acknowledged == ~is_connected /\ is_connected'

\* C21: an acknowledgement with rc = 0 (the first one, or one after a
\* reconnect) sets is_connected, the next step of the callback subscribes to
\* the request topic, and the subscribing step starts the one cycle of this
\* on_connect: when that cycle returns the callback ends, and an exception
\* that leaves the cycle ends it too.  No message is handled from the
\* acknowledgement to the end of the callback.
C21_ConnectSubscribeFetch ==
    [][/\ Acknowledged =>
            /\ connack' = <<0>> /\ in_connect' /\ ~subscribed'
            /\ pc'["cb"] = "subscribe"
       /\ (~subscribed /\ subscribed') =>
            /\ is_connected /\ in_connect /\ pc["cb"] = "subscribe"
            /\ pc'["cb"] = "loop" /\ attempts'["cb"] = 0 /\ published'["cb"] = 0
       /\ (in_connect' /\ pc["cb"] \notin FetchPcs /\ pc'["cb"] \in FetchPcs) =>
            ~subscribed /\ subscribed'
       /\ (in_connect /\ pc["cb"] \in FetchPcs /\ pc'["cb"] \notin FetchPcs) =>
            pc'["cb"] \in {"start_pub", "raised"}
       /\ (pc["cb"] = "start_pub" /\ pc'["cb"] # "start_pub") =>
            pc'["cb"] = "idle" /\ ~in_connect'
       /\ in_connect' =>
            /\ is_connected' /\ msg' = NoMsg
            /\ pc'["cb"] \in {"subscribe", "start_pub", "raised", "crashed"} \cup FetchPcs]_vars

\* the initial cycle of a reconnect has published and is about to return: the
\* cached parameters were set by a message of an earlier connection
C21_Witness ==
    /\ in_connect /\ is_connected /\ subscribed
    /\ pc["cb"] = "ret" /\ published["cb"] = 1
    /\ last_request_params = "center"

\* C22: after a failed connection attempt (connect() returned False, or the
\* acknowledgement carried a result code other than 0) the session is not
\* connected and the run has ended or is ending: run is not idling in its
\* loop with the stop flag clear.
C22_FailureEndsRun ==
    /\ pc["main"] = "connect_failed" => ~is_connected
    /\ Refused => ~is_connected /\ (stop_event \/ pc["main"] # "running")

\* the connection is lost: the step of on_disconnect
Disconnected == subscribed /\ ~subscribed'

\* C23: on_disconnect leaves is_connected false and changes neither the proxy
\* state nor the cached request parameters; is_connected becomes true again
\* only by an acknowledgement with rc = 0.
C23_DisconnectedUntilAck ==
    [][/\ Disconnected =>
            /\ ~is_connected'
            /\ UNCHANGED <<proxy_list, proxy_failures, current_proxy, use_proxy, proxies,
                           last_request_params>>
       /\ Acknowledged =>
            /\ pc["cb"] = "idle" /\ pc'["cb"] = "subscribe"
            /\ connack' = <<0>>]_vars

\* the connection was lost with request parameters cached and a proxy in use
C23_Witness ==
    /\ ~is_connected /\ ~subscribed /\ connack = <<0>>
    /\ pc["cb"] = "idle" /\ pc["main"] = "running"
    /\ last_request_params = "center" /\ current_proxy # None

\* C24: a failure of a probe, of the provider, of decoding, of publishing or
\* of a trigger's payload ends neither the run nor a thread: the stop flag is
\* set by disconnect only, the publisher thread ends only with the stop flag
\* set, and the delivery loop is never ended by an exception.
C24_FailuresKeepServing ==
    /\ stop_event => pc["main"] \in {"stopping", "loop_stopped", "stopped"}
    /\ pc["tk"] = "exit" => stop_event
    /\ pc["cb"] # "crashed"

\* C25: disconnect sets the stop flag first, stops the delivery loop only
\* when the publisher thread is not running (never started, or exited), and
\* closes the connection last; the publisher thread publishes nothing once
\* the connection is closed.
C25_ShutdownOrder ==
    [][/\ (pc["main"] # "stopping" /\ pc'["main"] = "stopping") => stop_event'
       /\ (pc["main"] = "stopping" /\ pc'["main"] = "loop_stopped") =>
            pc["tk"] \in {"off", "exit"}
       /\ (pc["main"] = "loop_stopped" /\ pc'["main"] # "loop_stopped") =>
            pc'["main"] = "stopped"
       /\ pc["main"] = "stopped" => published'["tk"] <= published["tk"]]_vars

\* C26: with the stop flag set, a running cycle starts no further attempt
\* after the one it is in, and the publisher loop starts no further cycle.
C26_StopEndsRetries ==
    [][\A t \in Workers :
         stop_event =>
           /\ attempts[t] >= 1 => attempts'[t] <= attempts[t]
           /\ (t = "tk" /\ pc[t] \in {"tk_check", "tk_wait"}) => pc'[t] \notin FetchPcs]_vars

\* C27: a probe that passes hands its candidate to the caller with the
\* failure counters unchanged; every other probe goes on to add one to the
\* counter of its candidate before find_working_proxy moves on.
C27_FailedProbeCounted ==
    [][\A t \in Threads :
         /\ (pc[t] = "probe" /\ pc'[t] # "probe") =>
              \/ /\ pc'[t] \in {"constructed", "sw_cur"}
                 /\ UNCHANGED proxy_failures
              \/ /\ pc'[t] = "probe_store"
                 /\ failkey'[t] = proxy[t]
                 /\ loaded'[t] = proxy_failures[proxy[t]]
         /\ (pc[t] = "probe_store" /\ pc'[t] # "probe_store") =>
              /\ proxy_failures'[failkey[t]] = proxy_failures[failkey[t]] + 1
              /\ pc'[t] = "find"]_vars

\* what find_working_proxy hands to its caller in this step: __init__ stores
\* it in current_proxy, switch_proxy in new_proxy
Found(t) == IF t = "main" THEN current_proxy' ELSE proxy'[t]
\* find_working_proxy returns in this step
FindReturns(t) ==
    /\ pc[t] \in {"find", "probe"}
    /\ pc'[t] \in {"constructed", "sw_cur", "sw_off"}

\* C28: find_working_proxy returns a candidate only from that candidate's
\* passed probe, which ends the call with the rest of the copy unvisited; it
\* returns None only with every candidate of the copy visited and none
\* passed; and it issues a probe only to an unvisited candidate of the list
\* whose failure counter is below 3.
C28_FindContract ==
    [][\A t \in Threads :
         /\ (FindReturns(t) /\ Found(t) # None) =>
              pc[t] = "probe" /\ Found(t) = proxy[t]
         /\ (FindReturns(t) /\ Found(t) = None) =>
              pc[t] = "find" /\ test_proxies[t] = {}
         /\ (pc[t] = "probe" /\ pc'[t] # "probe" /\ ~FindReturns(t)) =>
              pc'[t] \in {"find", "probe_store"} /\ test_proxies'[t] = test_proxies[t]
         /\ (pc[t] = "find" /\ pc'[t] = "probe") =>
              /\ proxy_failures[proxy'[t]] < FailureLimit
              /\ \E i \in test_proxies[t] :
                   proxy_list[i] = proxy'[t] /\ test_proxies'[t] = test_proxies[t] \ {i}]_vars

\* switch_proxy's search has returned a candidate while another one is
\* blacklisted
C28_Witness ==
    /\ pc["cb"] = "sw_cur" /\ proxy["cb"] # None
    /\ \E k \in Proxies : k # proxy["cb"] /\ proxy_failures[k] >= FailureLimit

\* C29: proxy_list holds each address once, and no step changes it: a
\* blacklisted candidate stays in the list, with its counter at 3 or more.
C29_DistinctAndKept ==
    [][/\ \A i, j \in Indices : proxy_list[i] = proxy_list[j] => i = j
       /\ proxy_list' = proxy_list]_vars

\* positions of switch_proxy with a rotation half done: some of use_proxy,
\* current_proxy and proxies written, the rest still to be written
HalfRotated == {"sw_prox", "sw_clear", "sw_empty"}
\* positions whose step reads use_proxy, current_proxy or proxies
ReadsRoute == {"tier2", "tier2_send", "except", "exc_chk", "exc_set", "exc_load"}
\* the other thread that runs cycles
Other(t) == IF t = "cb" THEN "tk" ELSE "cb"

\* C30: the two threads that run cycles exclude each other on the proxy
\* state: between the two reads of an attempt's route (use_proxy and
\* current_proxy, then proxies) nothing writes them, between the read and the
\* store of a counter update nothing writes the counters, and no thread reads
\* the route while the other thread's rotation is half done.
C30_ProxyStateExclusive ==
    [][\A t \in Workers :
         /\ (pc[t] = "tier2_send" /\ ~StepOf(t)) =>
              UNCHANGED <<current_proxy, use_proxy, proxies>>
         /\ (pc[t] \in {"exc_store", "probe_store"} /\ ~StepOf(t)) =>
              UNCHANGED proxy_failures
         /\ (pc[Other(t)] \in HalfRotated /\ StepOf(t)) => pc[t] \notin ReadsRoute]_vars

\* thread t begins a cycle: fetch_and_publish_data is called
CycleStarts(t) == pc[t] \notin FetchPcs /\ pc'[t] = "loop"
\* the messages that are update triggers
AllUpdateTriggers ==
    UpdateTriggers \cup { ObjectMessage(request_topic, "update", p) : p \in ParamObjects }

C32_FailureChargedToRoute ==
    [][\A t \in Workers : \A p \in Proxies :
         (pc[t] \in {"exc_set", "exc_store"} /\ StepOf(t)
            /\ proxy_failures'[p] > proxy_failures[p]) => route[t] = p]_vars

\* C33: a Tier 2 request that the check of line 256 sends by proxy is sent
\* with a mapping that names a proxy, never the empty one; and the handler of
\* a request that raised through a proxy charges that proxy: it writes no
\* other key, and not the key None.
C33_RouteAndBlameAgree ==
    [][\A t \in Workers :
         /\ (pc[t] = "tier2_send" /\ StepOf(t)) => route'[t] # None
         /\ (pc[t] \in {"exc_set", "exc_store"} /\ StepOf(t) /\ route[t] # None) =>
              \A k \in Keys : proxy_failures'[k] # proxy_failures[k] => k = route[t]
         /\ (pc[t] = "exc_load" /\ StepOf(t) /\ route[t] # None) =>
              current_proxy = route[t] /\ pc'[t] # "raised"]_vars

\* C34: the cached request parameters are absent or an object, whatever was
\* received, so that an attempt raises on them only for what an object holds.
C34_CachedParamsAreObject ==
    /\ last_request_params \in {"unset"} \cup ParamObjects
    /\ Tier1Plan(last_request_params) = "raise" => last_request_params \in ParamObjects

\* C35: an invocation of fetch_and_publish_data calls publish at most once,
\* with a 200 response in hand, and its next step is its return.
C35_OnePublicationPerCycle ==
    [][\A t \in Workers :
         /\ published'[t] <= 1
         /\ published'[t] > published[t] => pc[t] = "handle200"
         /\ (published[t] = 1 /\ StepOf(t)) =>
              /\ pc[t] = "ret" /\ pc'[t] \notin FetchPcs
              /\ published'[t] = 0]_vars

\* the third attempt of a cycle has published
C35_Witness ==
    /\ pc["cb"] = "ret" /\ published["cb"] = 1
    /\ attempts["cb"] = max_retries /\ retry_count["cb"] = max_retries - 1

\* the publisher thread is alive: started and not yet returned
Alive == pc["tk"] \notin {"off", "exit"}
\* on_connect reaches line 183 in this step
AtLine183 == pc["cb"] = "start_pub" /\ StepOf("cb")

\* C36: at most one publisher thread is alive: on_connect starts none while
\* one is alive, and starts exactly one when there is none or when the one it
\* started has returned.
C36_OnePublisherThread ==
    [][/\ publisher_threads' \in {0, 1}
       /\ (publisher_threads' = 1) <=> (pc'["tk"] \notin {"off", "exit"})
       /\ (AtLine183 /\ Alive) =>
            publisher_threads' = publisher_threads /\ pc'["tk"] = pc["tk"]
       /\ (AtLine183 /\ ~Alive /\ enable_periodic_publishing) =>
            publisher_threads' = 1 /\ pc'["tk"] = "tk_check"]_vars

\* the on_connect of a reconnect reaches line 183 while the publisher thread
\* started by an earlier one is inside a cycle
C36_Witness ==
    /\ pc["cb"] = "start_pub" /\ in_connect
    /\ publisher_threads = 1 /\ pc["tk"] \in FetchPcs

\* C37: once the stop flag is set the publisher thread, if there is one,
\* returns: it is not alive for ever after some point.
C37_PublisherExits == stop_event ~> ~Alive

\* the stop flag is set while the publisher thread is in the second attempt
\* of a cycle
C37_Witness ==
    /\ stop_event /\ publisher_threads = 1
    /\ pc["tk"] = "tier2_wait" /\ attempts["tk"] = 2

\* ---- TestProxy.py
NoDuplicates(list) == \A i, j \in 1 .. Len(list) : list[i] = list[j] => i = j

Keeps(old, new) == \A i \in 1 .. Len(old) : InList(old[i], new)

AllFailed == \A i \in 1 .. Len(manager_proxy_list) :
                InList(manager_proxy_list[i], failed_proxies)

\* select_random_proxy has just returned
Selected == called = "select_random_proxy"

\* C38: whatever methods of the manager are called, in whatever order:
\* select_random_proxy returns False exactly when every loaded entry is in
\* failed_proxies, and otherwise its selection is a loaded entry that is not
\* in failed_proxies; failed_proxies and verified_proxies hold no entry twice,
\* and every step keeps all their elements.
C38_SelectionAndLists ==
    [][ /\ Selected' =>
             /\ (returned' = "False") <=> AllFailed'
             /\ returned' = "True" =>
                  /\ InList(selected_proxy', manager_proxy_list')
                  /\ ~InList(selected_proxy', failed_proxies')
        /\ NoDuplicates(failed_proxies') /\ NoDuplicates(verified_proxies')
        /\ Keeps(failed_proxies, failed_proxies')
        /\ Keeps(verified_proxies, verified_proxies') ]_vars

\* two entries loaded, both failed (one of them verified before), and the
\* selection refused
C38_Witness ==
    /\ Selected /\ returned = "False"
    /\ Len(manager_proxy_list) = 2
    /\ Len(failed_proxies) = 2
    /\ verified_proxies # <<>>

\* what parse_selected_proxy makes of entry e alone: its host and port, or
\* no address when it returns False
Address(e) ==
    LET parsed == parse_selected_proxy(e, NoHost, NoPort)
    IN IF parsed.ok THEN <<parsed.host, parsed.port>> ELSE NoAddress

\* C39: the test request of verify_proxy, whose verdict is recorded for the
\* selected entry, goes to the host and port of that entry; for an entry that
\* cannot be parsed it never goes to the host and port of an entry selected
\* before.
C39_ProbesSelectedProxy ==
    probe # NoProbe =>
      IF Address(probe.entry) # NoAddress
      THEN <<probe.host, probe.port>> = Address(probe.entry)
      ELSE \A i \in 1 .. Len(manager_proxy_list) :
             <<probe.host, probe.port>> # Address(manager_proxy_list[i])

\* inside fetch_data, or just after its return
InFetch == mpc # "idle" \/ called = "fetch_data"

\* C40: fetch_data makes at most max_retries + 1 API requests, each after at
\* most min(10, number of loaded entries) passes of select-and-verify; an API
\* request goes through the address that passed verify_proxy in the same
\* round; a round in which nothing verifies returns None with no API request
\* sent.
C40_FetchBounded ==
    /\ api_requests <= manager_max_retries + 1
    /\ tries <= Min(TryLimit, Len(manager_proxy_list))
    /\ InFetch /\ sent # NoAddress => sent = passed
    /\ called = "fetch_data" /\ returned = "None" /\ ~proxy_found => sent = NoAddress

====
